---- MODULE Spec2Model ----
(***************************************************************************)
(* Overtime calculator (main.py): the cell computation                     *)
(*   cell value -> parse_shift_cell -> generate_segments                   *)
(*              -> rest_deductions_for_segment / compute_overtime_detail   *)
(*              -> calculate_overtime                                      *)
(*                                                                         *)
(* Python strings are sequences of one-character strings.  The module is   *)
(* ASCII only, so every run of CJK characters of the source is written as  *)
(* a fixed run of romanised stand-in characters (one element per source    *)
(* character); no stand-in is a digit, ':', '-', '+', '_' or a blank.      *)
(* Optional[T] is the record [some, val].  Hours are kept in hundredths of *)
(* an hour (round(x, 2) has two decimals), so 7.5 hours is 750.            *)
(***************************************************************************)
EXTENDS Integers, Sequences, FiniteSets, TLC

VARIABLES fn, arg, pc, ret

vars == <<fn, arg, pc, ret>>

(***************************************************************************)
(* Bounds of the explored inputs.                                          *)
(***************************************************************************)
\* hour and minute fields of the enumerated time tokens run over -1..Max
MaxHour == 25
MaxMinute == 61
\* a cell holds at most MaxParts whitespace-separated parts
MaxParts == 2
\* rest_deductions_for_segment is explored on segments inside MaxDays days
MaxDays == 3
\* ... with end points at most Delta minutes away from a break edge
Delta == 1
\* totals of worked minutes given to the rounding run over 0..MaxTotalMinutes
MaxTotalMinutes == 2880

(***************************************************************************)
(* Module constants of main.py                                             *)
(***************************************************************************)
DAY_MINUTES == 24 * 60

REST_BREAKS ==
    << <<11 * 60 + 30, 12 * 60, "11:30-12:00">>,
       <<17 * 60, 17 * 60 + 30, "17:00-17:30">>,
       <<23 * 60, 23 * 60 + 30, "23:00-23:30">> >>

\* the one rest-day label (six CJK characters)
REST_LABELS == { <<"yi", "xian", "yuan", "gong", "xiu", "xi">> }

\* the values of TARGET_RULES
TARGET_RULES == [d \in {1, 2, 3, 5, 6} |->
                   IF d \in {1, 2} THEN "full"
                   ELSE IF d = 5 THEN "after_midnight" ELSE "until_midnight"]

(***************************************************************************)
(* Optional values                                                         *)
(***************************************************************************)
None == [some |-> FALSE, val |-> 0]
Some(v) == [some |-> TRUE, val |-> v]

(***************************************************************************)
(* Python str operations on sequences of characters                        *)
(***************************************************************************)
Digits == <<"0", "1", "2", "3", "4", "5", "6", "7", "8", "9">>

IsDigit(c) == \E i \in 1..10 : Digits[i] = c

DigitVal(c) == (CHOOSE i \in 1..10 : Digits[i] = c) - 1

\* str.isspace for the blanks the inputs use
IsSpace(c) == c \in {" ", "\t"}

\* c in s
Contains(s, c) == \E i \in 1..Len(s) : s[i] = c

\* s.strip()
Strip(s) ==
    LET keep == {i \in 1..Len(s) : ~IsSpace(s[i])}
    IN  IF keep = {} THEN <<>>
        ELSE LET lo == CHOOSE i \in keep : \A j \in keep : i <= j
                 hi == CHOOSE i \in keep : \A j \in keep : j <= i
             IN  SubSeq(s, lo, hi)

\* s.split(c, 1) for a string that contains c: <<head, tail>>
SplitFirst(s, c) ==
    LET at == CHOOSE i \in 1..Len(s) : s[i] = c /\ \A j \in 1..(i - 1) : s[j] # c
    IN  <<SubSeq(s, 1, at - 1), SubSeq(s, at + 1, Len(s))>>

\* s.split(): the maximal runs of non-blank characters, in order
RECURSIVE SplitWs(_, _, _)
SplitWs(s, i, cur) ==
    IF i > Len(s) THEN (IF cur = <<>> THEN <<>> ELSE <<cur>>)
    ELSE IF IsSpace(s[i])
         THEN (IF cur = <<>> THEN <<>> ELSE <<cur>>) \o SplitWs(s, i + 1, <<>>)
         ELSE SplitWs(s, i + 1, Append(cur, s[i]))

Split(s) == SplitWs(s, 1, <<>>)

\* value of a run of digits and underscores, underscores ignored
RECURSIVE DigitsValue(_, _, _)
DigitsValue(s, i, acc) ==
    IF i > Len(s) THEN acc
    ELSE IF s[i] = "_" THEN DigitsValue(s, i + 1, acc)
         ELSE DigitsValue(s, i + 1, acc * 10 + DigitVal(s[i]))

\* int(s): None stands for ValueError.  Blanks around the literal are
\* dropped, one sign is allowed, the body is digits with single underscores
\* between digits.
IsSigned(t) == t # <<>> /\ t[1] \in {"+", "-"}

WellFormedDigits(body) ==
    /\ body # <<>>
    /\ \A i \in 1..Len(body) : IsDigit(body[i]) \/ body[i] = "_"
    /\ IsDigit(body[1])
    /\ IsDigit(body[Len(body)])
    /\ \A i \in 1..(Len(body) - 1) : ~(body[i] = "_" /\ body[i + 1] = "_")

\* t is the literal without the blanks around it, body is t without its sign
PyIntSigned(t, body) ==
    IF ~WellFormedDigits(body) THEN None
    ELSE IF t[1] = "-" THEN Some(0 - DigitsValue(body, 1, 0))
         ELSE Some(DigitsValue(body, 1, 0))

PyIntStripped(t) == PyIntSigned(t, IF IsSigned(t) THEN Tail(t) ELSE t)

PyInt(s) == PyIntStripped(Strip(s))

(***************************************************************************)
(* parse_time_to_minutes                                                   *)
(***************************************************************************)
\* lines 67-71: the minutes of an hour and a minute that both parsed
MinutesOf_Hour24(hour, minute) ==
    IF hour = 24 /\ minute = 0 THEN Some(DAY_MINUTES)
    ELSE IF ~(0 <= hour /\ hour <= 24 /\ 0 <= minute /\ minute < 60) THEN None
    ELSE Some(hour * 60 + minute)

MinutesOf(hour, minute) ==
    IF hour = 24 /\ minute = 0 THEN Some(DAY_MINUTES)
    ELSE IF ~(0 <= hour /\ hour < 24 /\ 0 <= minute /\ minute < 60) THEN None
    ELSE Some(hour * 60 + minute)

\* lines 62-71: hour and minute are the results of int() on the two halves
TimeOfInts(hour, minute) ==
    IF ~hour.some \/ ~minute.some THEN None
    ELSE MinutesOf(hour.val, minute.val)

TimeOfHalves(halves) == TimeOfInts(PyInt(halves[1]), PyInt(halves[2]))

\* lines 57-71: token is the stripped token
TimeOfStripped(token) ==
    IF token = <<>> THEN None
    ELSE IF ~Contains(token, ":") THEN None
    ELSE TimeOfHalves(SplitFirst(token, ":"))

parse_time_to_minutes(token) == TimeOfStripped(Strip(token))

(***************************************************************************)
(* parse_shift_cell                                                        *)
(***************************************************************************)
\* the two error-message prefixes (CJK text followed by ": ")
MsgUnrecognizedFormat ==
    <<"wu", "fa", "shi", "bie", "pai", "ban", "ge", "shi4", ":", " ">>
MsgInvalidRange ==
    <<"wu", "xiao", "de", "shi2", "jian", "fan", "wei", ":", " ">>

\* a cell value is None or a string; str(value) of a string is the string
NoneValue == [isNone |-> TRUE, s |-> <<>>]
StrValue(s) == [isNone |-> FALSE, s |-> s]

\* lines 92-94: the interval of a start and an end, wrapped over midnight
WrapInterval_NoWrap(start, end) == <<start, end>>

WrapInterval_WrapOnEqual(start, end) ==
    <<start, IF end <= start THEN end + DAY_MINUTES ELSE end>>

WrapInterval(start, end) ==
    <<start, IF end < start THEN end + DAY_MINUTES ELSE end>>

\* lines 90-94: start and end are the results of parse_time_to_minutes
PartOfTimes(part, start, end) ==
    IF ~start.some \/ ~end.some
    THEN [error |-> Some(MsgInvalidRange \o part), interval |-> <<>>]
    ELSE [error |-> None, interval |-> WrapInterval(start.val, end.val)]

PartOfTokens(part, tokens) ==
    PartOfTimes(part, parse_time_to_minutes(tokens[1]),
                parse_time_to_minutes(tokens[2]))

\* the body of the for loop for one part: an error message, or the interval
\* of the part
ParsePart_PartInMessage(part, text) ==
    IF ~Contains(part, "-")
    THEN [error |-> Some(MsgUnrecognizedFormat \o part), interval |-> <<>>]
    ELSE PartOfTokens(part, SplitFirst(part, "-"))

ParsePart(part, text) ==
    IF ~Contains(part, "-")
    THEN [error |-> Some(MsgUnrecognizedFormat \o text), interval |-> <<>>]
    ELSE PartOfTokens(part, SplitFirst(part, "-"))

\* the for loop over parts: the first error returns at once with no
\* intervals, otherwise the interval is appended
RECURSIVE ParseParts(_, _, _, _)
ParseParts(parts, i, intervals, text) ==
    IF i > Len(parts)
    THEN [intervals |-> intervals, error |-> None, text |-> text]
    ELSE IF ParsePart(parts[i], text).error.some
         THEN [intervals |-> <<>>, error |-> ParsePart(parts[i], text).error,
               text |-> text]
         ELSE ParseParts(parts, i + 1,
                         Append(intervals, ParsePart(parts[i], text).interval), text)

\* lines 78-95: text is the stripped text of the cell
ParseText(text) ==
    IF text = <<>>
    THEN [intervals |-> <<>>, error |-> None, text |-> <<>>]
    ELSE IF text \in REST_LABELS
    THEN [intervals |-> <<>>, error |-> None, text |-> text]
    ELSE ParseParts(Split(text), 1, <<>>, text)

parse_shift_cell(value) ==
    IF value.isNone THEN [intervals |-> <<>>, error |-> None, text |-> <<>>]
    ELSE ParseText(Strip(value.s))

(***************************************************************************)
(* clip_segment, generate_segments                                         *)
(***************************************************************************)
Min(a, b) == IF a <= b THEN a ELSE b
Max(a, b) == IF a >= b THEN a ELSE b

clip_segment_KeepsEmpty(start, end, clip_start, clip_end) ==
    LET upper == IF ~clip_end.some THEN end ELSE Min(end, clip_end.val)
        lower == Max(start, clip_start)
    IN  IF upper < lower THEN None ELSE Some(<<lower, upper>>)

clip_segment_NoUpper(start, end, clip_start, clip_end) ==
    LET upper == end
        lower == Max(start, clip_start)
    IN  IF upper <= lower THEN None ELSE Some(<<lower, upper>>)

\* clip_end is Optional[int]; the result is Optional[(lower, upper)]
clip_segment(start, end, clip_start, clip_end) ==
    LET upper == IF ~clip_end.some THEN end ELSE Min(end, clip_end.val)
        lower == Max(start, clip_start)
    IN  IF upper <= lower THEN None ELSE Some(<<lower, upper>>)

\* the for loop; raised stands for the ValueError of the else branch
RECURSIVE SegmentsLoop(_, _, _, _)
SegmentsLoop(intervals, rule, i, segments) ==
    IF i > Len(intervals) THEN [raised |-> FALSE, segments |-> segments]
    ELSE LET start == intervals[i][1]
             end == intervals[i][2]
         IN  IF rule = "full"
             THEN SegmentsLoop(intervals, rule, i + 1, Append(segments, <<start, end>>))
             ELSE IF rule = "until_midnight"
             THEN LET clipped == clip_segment(start, end, 0, Some(DAY_MINUTES))
                  IN  SegmentsLoop(intervals, rule, i + 1,
                                   IF clipped.some THEN Append(segments, clipped.val)
                                   ELSE segments)
             ELSE IF rule = "after_midnight"
             THEN LET clipped == clip_segment(start, end, DAY_MINUTES, None)
                  IN  SegmentsLoop(intervals, rule, i + 1,
                                   IF clipped.some THEN Append(segments, clipped.val)
                                   ELSE segments)
             ELSE [raised |-> TRUE, segments |-> <<>>]

generate_segments(intervals, rule) == SegmentsLoop(intervals, rule, 1, <<>>)

(***************************************************************************)
(* format_rest_label, rest_deductions_for_segment                          *)
(***************************************************************************)
\* "ciri" stands for the two characters of the next-day prefix, "di" and
\* "tian" for the characters around the day number
format_rest_label_NoDayN(day_offset, label) ==
    IF day_offset = 0 THEN label
    ELSE "ciri" \o label

format_rest_label(day_offset, label) ==
    IF day_offset = 0 THEN label
    ELSE IF day_offset = 1 THEN "ciri" \o label
    ELSE "di" \o ToString(day_offset) \o "tian" \o label

\* the two nested for loops: day_offset from start_day to end_day, and for
\* each day the breaks b = 1..3 in table order
RECURSIVE DeductionLoop(_, _, _, _, _, _, _)
DeductionLoop(start, end, day_offset, end_day, b, total, labels) ==
    IF day_offset > end_day THEN [total |-> total, labels |-> labels]
    ELSE IF b > Len(REST_BREAKS)
    THEN DeductionLoop(start, end, day_offset + 1, end_day, 1, total, labels)
    ELSE LET base == day_offset * DAY_MINUTES
             rs == base + REST_BREAKS[b][1]
             re == base + REST_BREAKS[b][2]
             overlap == Min(end, re) - Max(start, rs)
         IN  IF overlap > 0
             THEN DeductionLoop(start, end, day_offset, end_day, b + 1,
                                total + overlap,
                                Append(labels,
                                       format_rest_label(day_offset, REST_BREAKS[b][3])))
             ELSE DeductionLoop(start, end, day_offset, end_day, b + 1, total, labels)

rest_deductions_for_segment_ExclusiveRange(start, end) ==
    IF end <= start THEN [total |-> 0, labels |-> <<>>]
    ELSE LET start_day == start \div DAY_MINUTES
             end_day == (end - 1) \div DAY_MINUTES
         IN  DeductionLoop(start, end, start_day, end_day - 1, 1, 0, <<>>)

rest_deductions_for_segment(start, end) ==
    IF end <= start THEN [total |-> 0, labels |-> <<>>]
    ELSE LET start_day == start \div DAY_MINUTES
             end_day == (end - 1) \div DAY_MINUTES
         IN  DeductionLoop(start, end, start_day, end_day, 1, 0, <<>>)

(***************************************************************************)
(* compute_overtime_detail, calculate_overtime                             *)
(***************************************************************************)
RECURSIVE DetailLoop(_, _, _, _)
DetailLoop(segments, i, total_minutes, used_labels) ==
    IF i > Len(segments)
    THEN [total_minutes |-> total_minutes, used_labels |-> used_labels]
    ELSE LET start == segments[i][1]
             end == segments[i][2]
         IN  IF end <= start
             THEN DetailLoop(segments, i + 1, total_minutes, used_labels)
             ELSE LET duration == end - start
                  IN  DetailLoop(segments, i + 1,
                                 total_minutes
                                   + Max(0, duration
                                            - rest_deductions_for_segment(start, end).total),
                                 used_labels
                                   \o rest_deductions_for_segment(start, end).labels)

compute_overtime_detail(segments) == DetailLoop(segments, 1, 0, <<>>)

\* round(minutes / 60, 2) in hundredths of an hour.  Python rounds the
\* float to the nearest value with two decimals, a tie going to the even
\* hundredth.
RoundHours_Truncate(minutes) == (minutes * 100) \div 60

RoundHours(minutes) ==
    LET q == (minutes * 100) \div 60
        r == (minutes * 100) % 60
    IN  IF 2 * r < 60 THEN q
        ELSE IF 2 * r > 60 THEN q + 1
        ELSE IF q % 2 = 0 THEN q ELSE q + 1

OvertimeResult(hours, rest_labels, shift_text, error) ==
    [hours |-> hours, rest_labels |-> rest_labels,
     shift_text |-> shift_text, error |-> error]

\* lines 196-205: p is the parse, d the detail of the segments
OvertimeOfDetail(p, d) ==
    OvertimeResult(RoundHours(d.total_minutes), d.used_labels, p.text, None)

\* lines 195-205: g is the result of generate_segments; raised is its
\* ValueError leaving calculate_overtime
OvertimeOfSegments(p, g) ==
    IF g.raised
    THEN [raised |-> TRUE, result |-> OvertimeResult(0, <<>>, <<>>, None)]
    ELSE [raised |-> FALSE,
          result |-> OvertimeOfDetail(p, compute_overtime_detail(g.segments))]

\* lines 191-205: p is the result of parse_shift_cell
OvertimeOfParse(p, rule) ==
    IF p.error.some
    THEN [raised |-> FALSE, result |-> OvertimeResult(0, <<>>, p.text, p.error)]
    ELSE IF p.intervals = <<>>
    THEN [raised |-> FALSE, result |-> OvertimeResult(0, <<>>, p.text, None)]
    ELSE OvertimeOfSegments(p, generate_segments(p.intervals, rule))

calculate_overtime(value, rule) == OvertimeOfParse(parse_shift_cell(value), rule)

(***************************************************************************)
(* Inputs                                                                  *)
(***************************************************************************)
\* decimal text of n, two digits from 0 to 99, with '-' for a negative n
Dec2(n) == <<Digits[(n \div 10) + 1], Digits[(n % 10) + 1]>>
FieldText(n) == IF n < 0 THEN <<"-">> \o Dec2(0 - n) ELSE Dec2(n)
TimeText(h, m) == FieldText(h) \o <<":">> \o FieldText(m)
ShiftText(h1, m1, h2, m2) == TimeText(h1, m1) \o <<"-">> \o TimeText(h2, m2)

\* tokens given to parse_time_to_minutes.  ints tells whether both halves
\* are integer literals, h and m are then their values.
IntTokens ==
    {[token |-> TimeText(h, m), ints |-> TRUE, h |-> h, m |-> m] :
        h \in -1..MaxHour, m \in -1..MaxMinute}
    \cup {[token |-> <<"9", ":", "0", "0">>, ints |-> TRUE, h |-> 9, m |-> 0],
          [token |-> <<"+", "9", ":", "0", "5">>, ints |-> TRUE, h |-> 9, m |-> 5],
          [token |-> <<" ", "0", "9", ":", "3", "0", " ">>, ints |-> TRUE, h |-> 9, m |-> 30],
          [token |-> <<"1", "_", "0", ":", "0", "0">>, ints |-> TRUE, h |-> 10, m |-> 0],
          [token |-> <<"0", "0", "7", ":", "3", "0">>, ints |-> TRUE, h |-> 7, m |-> 30],
          [token |-> <<"0", "2", "4", ":", "0", "0", "0">>, ints |-> TRUE, h |-> 24, m |-> 0],
          [token |-> <<"2", "4", ":", "0">>, ints |-> TRUE, h |-> 24, m |-> 0],
          [token |-> <<"-", "0", ":", "3", "0">>, ints |-> TRUE, h |-> 0, m |-> 30],
          [token |-> <<"2", "4", ":", "-", "0">>, ints |-> TRUE, h |-> 24, m |-> 0],
          [token |-> <<"1", "0", "0", ":", "0", "0">>, ints |-> TRUE, h |-> 100, m |-> 0]}

OtherTokens ==
    {[token |-> t, ints |-> FALSE, h |-> 0, m |-> 0] :
        t \in {<<>>, <<" ">>, <<"9">>, <<"0", "9", "0", "0">>,
               <<"0", "9", ".", "0", "0">>,
               <<"0", "9", ":">>, <<":", "3", "0">>, <<":">>,
               <<"a", ":", "0", "0">>, <<"0", "9", ":", "0", "x">>,
               <<"0", "9", ":", "0", "0", ":", "0", "0">>,
               <<"-", "-", "1", ":", "0", "0">>,
               <<"0", "9", ":", "_", "0">>, <<"0", "9", ":", "1", "_", "_", "0">>,
               <<"0", " ", "9", ":", "0", "0">>}}

Tokens == IntTokens \cup OtherTokens

\* hours and minutes of the time texts used in cells: the break edges, the
\* hours around midnight, one value past each range
CellHours == {0, 1, 7, 9, 11, 12, 17, 18, 22, 23, 24, 25}
CellMinutes == {0, 15, 30, 37, 59, 60}

OnePartCells ==
    {ShiftText(h1, m1, h2, m2) :
        h1 \in CellHours, m1 \in CellMinutes, h2 \in CellHours, m2 \in CellMinutes}

\* parts of the cells with several parts: shifts, a part without '-', a
\* part with a bad time
SampleParts ==
    {ShiftText(9, 0, 18, 0), ShiftText(22, 0, 7, 0), ShiftText(23, 15, 23, 15),
     TimeText(18, 0), TimeText(20, 0), ShiftText(18, 0, 24, 30)}

RECURSIVE JoinedCells(_)
JoinedCells(k) ==
    IF k = 1 THEN SampleParts
    ELSE {c \o <<" ">> \o q : c \in JoinedCells(k - 1), q \in SampleParts}

ManyPartCells == UNION {JoinedCells(k) : k \in 2..MaxParts}

\* cells with blanks around or between the parts, and odd parts
OddCells ==
    {<<" ">> \o ShiftText(9, 0, 18, 0),
     ShiftText(22, 0, 7, 0) \o <<" ", " ">>,
     <<" ">> \o TimeText(18, 0) \o <<" ">> \o TimeText(20, 0) \o <<"\t">>,
     <<"\t">> \o ShiftText(9, 0, 12, 0) \o <<" ", " ">> \o ShiftText(25, 0, 9, 0),
     ShiftText(9, 0, 12, 0) \o <<"\t">> \o ShiftText(13, 0, 17, 15),
     <<"-">> \o ShiftText(9, 0, 18, 0),
     TimeText(9, 0) \o <<"-">>,
     <<"-">>,
     ShiftText(9, 0, -1, 0),
     <<"4", "2">>,
     <<"x">>,
     <<"xiu", "xi">>,
     ShiftText(0, 0, 1, 30), ShiftText(0, 0, 0, 37)}

BlankCells == {<<>>, <<" ">>, <<" ", "\t", " ">>}

RestCells ==
    REST_LABELS \cup {<<" ">> \o l \o <<" ">> : l \in REST_LABELS}

CellTexts == OnePartCells \cup ManyPartCells \cup OddCells \cup BlankCells \cup RestCells

CellValues == {NoneValue} \cup {StrValue(t) : t \in CellTexts}

\* the rule names of TARGET_RULES, and names outside them
ValidRules == {TARGET_RULES[d] : d \in DOMAIN TARGET_RULES}
UnknownRules == {"", "FULL", "midnight"}
Rules == ValidRules \cup UnknownRules

\* interval sequences the parser produces (the empty one among them)
ParsedIntervals == {parse_shift_cell(v).intervals : v \in CellValues}

\* end points of the segments given to rest_deductions_for_segment
BreakEdges == {0} \cup UNION {{REST_BREAKS[b][1], REST_BREAKS[b][2]} : b \in 1..3}
SegmentPoints ==
    {p \in {d * DAY_MINUTES + e + k :
               d \in 0..MaxDays, e \in BreakEdges, k \in (0 - Delta)..Delta} :
        0 <= p /\ p <= MaxDays * DAY_MINUTES}

(***************************************************************************)
(* The calls.  fn is the function called, arg its arguments, pc is "ready" *)
(* before the call and "returned" or "raised" after it, ret is the value   *)
(* returned.                                                               *)
(***************************************************************************)
Init ==
    /\ pc = "ready"
    /\ ret = None
    /\ \/ fn = "parse_time_to_minutes" /\ arg \in Tokens
       \/ /\ fn = "parse_shift_cell"
          /\ arg \in {[value |-> v] : v \in CellValues}
       \/ /\ fn = "generate_segments"
          /\ arg \in {[intervals |-> i, rule |-> r] : i \in ParsedIntervals, r \in Rules}
       \/ /\ fn = "rest_deductions_for_segment"
          /\ arg \in {[start |-> s, end |-> e] : s \in SegmentPoints, e \in SegmentPoints}
       \/ /\ fn = "calculate_overtime"
          /\ arg \in {[value |-> v, rule |-> r] : v \in CellValues, r \in Rules}
       \/ /\ fn = "round"
          /\ arg \in {[minutes |-> m] : m \in 0..MaxTotalMinutes}

ParseTimeToMinutes ==
    /\ pc = "ready" /\ fn = "parse_time_to_minutes"
    /\ ret' = parse_time_to_minutes(arg.token)
    /\ pc' = "returned"
    /\ UNCHANGED <<fn, arg>>

ParseShiftCell ==
    /\ pc = "ready" /\ fn = "parse_shift_cell"
    /\ ret' = parse_shift_cell(arg.value)
    /\ pc' = "returned"
    /\ UNCHANGED <<fn, arg>>

GenerateSegments ==
    /\ pc = "ready" /\ fn = "generate_segments"
    /\ ret' = generate_segments(arg.intervals, arg.rule).segments
    /\ pc' = IF generate_segments(arg.intervals, arg.rule).raised
             THEN "raised" ELSE "returned"
    /\ UNCHANGED <<fn, arg>>

RestDeductionsForSegment ==
    /\ pc = "ready" /\ fn = "rest_deductions_for_segment"
    /\ ret' = rest_deductions_for_segment(arg.start, arg.end)
    /\ pc' = "returned"
    /\ UNCHANGED <<fn, arg>>

CalculateOvertime ==
    /\ pc = "ready" /\ fn = "calculate_overtime"
    /\ ret' = calculate_overtime(arg.value, arg.rule).result
    /\ pc' = IF calculate_overtime(arg.value, arg.rule).raised
             THEN "raised" ELSE "returned"
    /\ UNCHANGED <<fn, arg>>

\* the statement hours = round(minutes / 60, 2) of calculate_overtime
RoundMinutes ==
    /\ pc = "ready" /\ fn = "round"
    /\ ret' = RoundHours(arg.minutes)
    /\ pc' = "returned"
    /\ UNCHANGED <<fn, arg>>

Next ==
    \/ ParseTimeToMinutes
    \/ ParseShiftCell
    \/ GenerateSegments
    \/ RestDeductionsForSegment
    \/ CalculateOvertime
    \/ RoundMinutes

Spec == Init /\ [][Next]_vars

(***************************************************************************)
(* Properties                                                              *)
(***************************************************************************)
Returned(f) == fn = f /\ pc = "returned"

\* a is a contiguous piece of b
IsInfix(a, b) ==
    \E i \in 0..(Len(b) - Len(a)) : SubSeq(b, i + 1, i + Len(a)) = a

Cell0918 == StrValue(ShiftText(9, 0, 18, 0))

\* C1 (as claimed): "09:00-18:00" under full gives 7.5 hours and the single
\* deducted label "11:30-12:00".
C1_AsClaimed ==
    (Returned("calculate_overtime") /\ arg.value = Cell0918 /\ arg.rule = "full")
        => (ret.hours = 750 /\ ret.rest_labels = <<"11:30-12:00">>)

\* C1 (amended): "09:00-18:00" under full gives 8.0 hours: the shift is nine
\* hours long and covers both the 11:30-12:00 and the 17:00-17:30 break, so
\* the deducted labels are "11:30-12:00", "17:00-17:30" in that order.
C1_Amended ==
    (Returned("calculate_overtime") /\ arg.value = Cell0918 /\ arg.rule = "full")
        => (ret.hours = 800
            /\ ret.rest_labels = <<"11:30-12:00", "17:00-17:30">>
            /\ ~ret.error.some)

C1_Witness ==
    Returned("calculate_overtime") /\ arg.value = Cell0918 /\ arg.rule = "full"
    /\ ret.hours = 800

\* C2: a rule name outside full, until_midnight, after_midnight never yields
\* a result: every finished call of calculate_overtime or generate_segments
\* with such a rule has raised the configuration error.
C2_UnknownRuleRaises ==
    (/\ fn \in {"calculate_overtime", "generate_segments"}
     /\ pc # "ready"
     /\ arg.rule \notin {"full", "until_midnight", "after_midnight"})
        => pc = "raised"

\* the parts of a cell text, and the parts that are not a shift
PartsOf(text) == Split(Strip(text))
BadPart(part) ==
    \/ ~Contains(part, "-")
    \/ ~parse_time_to_minutes(SplitFirst(part, "-")[1]).some
    \/ ~parse_time_to_minutes(SplitFirst(part, "-")[2]).some
Malformed(text) ==
    /\ Strip(text) # <<>>
    /\ Strip(text) \notin REST_LABELS
    /\ \E i \in 1..Len(PartsOf(text)) : BadPart(PartsOf(text)[i])
FirstBadLacksDash(text) ==
    LET parts == PartsOf(text)
        first == CHOOSE i \in 1..Len(parts) :
                    BadPart(parts[i]) /\ \A j \in 1..(i - 1) : ~BadPart(parts[j])
    IN  ~Contains(parts[first], "-")

MalformedCall ==
    /\ fn = "calculate_overtime" /\ pc # "ready"
    /\ arg.rule \in ValidRules
    /\ ~arg.value.isNone
    /\ Malformed(arg.value.s)

\* C3 (as claimed): a malformed cell gives hours 0, no labels, the original
\* cell text as shift text and a non-empty error; the error holds the
\* original cell text when the first bad part lacks '-'.
C3_AsClaimed ==
    MalformedCall =>
        /\ pc = "returned"
        /\ ret.hours = 0
        /\ ret.rest_labels = <<>>
        /\ ret.shift_text = arg.value.s
        /\ ret.error.some /\ ret.error.val # <<>>
        /\ FirstBadLacksDash(arg.value.s) => IsInfix(arg.value.s, ret.error.val)

\* C3 (amended): a malformed cell gives hours 0, no labels, the cell text
\* with the blanks around it removed as shift text and a non-empty error;
\* the error holds that trimmed text when the first bad part lacks '-'.
C3_Amended ==
    MalformedCall =>
        /\ pc = "returned"
        /\ ret.hours = 0
        /\ ret.rest_labels = <<>>
        /\ ret.shift_text = Strip(arg.value.s)
        /\ ret.error.some /\ ret.error.val # <<>>
        /\ FirstBadLacksDash(arg.value.s)
              => IsInfix(Strip(arg.value.s), ret.error.val)

\* a cell whose first part is a shift that overlaps a break and whose second
\* part lacks '-'
C3_Witness ==
    /\ MalformedCall /\ pc = "returned"
    /\ arg.value = StrValue(ShiftText(9, 0, 18, 0) \o <<" ">> \o TimeText(18, 0))
    /\ arg.rule = "full"
    /\ ret.hours = 0

\* C4 (as claimed): every interval returned by parse_shift_cell has
\* end > start.
C4_AsClaimed ==
    (Returned("parse_shift_cell") /\ ~ret.error.some)
        => \A i \in 1..Len(ret.intervals) :
              ret.intervals[i][2] > ret.intervals[i][1]

\* the minute value of the end token of part i of a parsed text
WrittenEnd(text, i) ==
    parse_time_to_minutes(SplitFirst(PartsOf(text)[i], "-")[2]).val

\* C4 (amended): every interval returned by parse_shift_cell has
\* end >= start, and end = start only when the two written times are the
\* same minute of the day or the start is 24:00 and the end 00:00.
C4_Amended ==
    (Returned("parse_shift_cell") /\ ~ret.error.some)
        => \A i \in 1..Len(ret.intervals) :
              LET start == ret.intervals[i][1]
                  end == ret.intervals[i][2]
              IN  /\ end >= start
                  /\ end = start =>
                        \/ WrittenEnd(ret.text, i) = start
                        \/ start = DAY_MINUTES /\ WrittenEnd(ret.text, i) = 0

\* a wrapped shift and a zero-length one were parsed
C4_Witness ==
    /\ Returned("parse_shift_cell") /\ ~ret.error.some
    /\ Len(ret.intervals) = 2
    /\ ret.intervals[1] = <<22 * 60, 7 * 60 + DAY_MINUTES>>
    /\ ret.intervals[2][1] = ret.intervals[2][2]

\* C5: a token "H:M" with integer halves gives H*60+M exactly when
\* 0 <= H < 24 and 0 <= M < 60, gives 1440 exactly when H = 24 and M = 0,
\* and gives no value for every other pair; an empty token and a token
\* without ':' give no value; the call always returns.
C5_ParseTime ==
    (fn = "parse_time_to_minutes" /\ pc # "ready") =>
        /\ pc = "returned"
        /\ arg.ints =>
              IF 0 <= arg.h /\ arg.h < 24 /\ 0 <= arg.m /\ arg.m < 60
              THEN ret = Some(arg.h * 60 + arg.m)
              ELSE IF arg.h = 24 /\ arg.m = 0 THEN ret = Some(1440)
              ELSE ret = None
        /\ (Strip(arg.token) = <<>> \/ ~Contains(arg.token, ":")) => ret = None

C5_Witness ==
    /\ Returned("parse_time_to_minutes")
    /\ arg.token = TimeText(24, 0)
    /\ ret = Some(1440)

\* minute t of a day lies in one of the three break windows
InBreakWindow(k, t) ==
    \/ k = 1 /\ 11 * 60 + 30 <= t /\ t < 12 * 60
    \/ k = 2 /\ 17 * 60 <= t /\ t < 17 * 60 + 30
    \/ k = 3 /\ 23 * 60 <= t /\ t < 23 * 60 + 30
WindowLabel(k) ==
    IF k = 1 THEN "11:30-12:00" ELSE IF k = 2 THEN "17:00-17:30" ELSE "23:00-23:30"

\* the minutes of [start, end) that fall in break k of day d
BreakMinutes(start, end, d, k) ==
    {t \in start..(end - 1) : t \div 1440 = d /\ InBreakWindow(k, t % 1440)}

\* the (day, break) pairs in the order day first, break second
DayBreakPairs == [n \in 1..(3 * (MaxDays + 1)) |-> <<(n - 1) \div 3, ((n - 1) % 3) + 1>>]

QualifiedLabel(d, k) ==
    IF d = 0 THEN WindowLabel(k)
    ELSE IF d = 1 THEN "ciri" \o WindowLabel(k)
    ELSE "di" \o ToString(d) \o "tian" \o WindowLabel(k)

ExpectedLabels(start, end) ==
    LET Hit(p) == BreakMinutes(start, end, p[1], p[2]) # {}
        hits == SelectSeq(DayBreakPairs, Hit)
    IN  [n \in 1..Len(hits) |-> QualifiedLabel(hits[n][1], hits[n][2])]

\* C6: for 0 <= start < end the deducted minutes are the number of minutes
\* of the segment inside the three break windows repeated every day, and
\* the labels are one per (day, break) pair with a positive overlap, by day
\* and then by table order, each qualified by its day; for end <= start the
\* result is 0 minutes and no labels.
C6_RestDeductions ==
    Returned("rest_deductions_for_segment") =>
        IF arg.end <= arg.start
        THEN ret.total = 0 /\ ret.labels = <<>>
        ELSE /\ ret.total =
                  Cardinality({t \in arg.start..(arg.end - 1) :
                                  \E k \in 1..3 : InBreakWindow(k, t % 1440)})
             /\ ret.labels = ExpectedLabels(arg.start, arg.end)

\* a segment over three days with a label of each qualification
C6_Witness ==
    /\ Returned("rest_deductions_for_segment")
    /\ arg.start = 11 * 60 + 30 + 1
    /\ arg.end > 2 * 1440 + 12 * 60
    /\ Len(ret.labels) >= 7
    /\ ret.labels[1] = "11:30-12:00"
    /\ ret.labels[4] = "ciri11:30-12:00"
    /\ ret.labels[7] = "di2tian11:30-12:00"

\* C7 (as claimed): under each of the three rules every segment returned
\* by generate_segments has end > start.
C7_AsClaimed ==
    (Returned("generate_segments") /\ arg.rule \in ValidRules)
        => \A i \in 1..Len(ret) : ret[i][2] > ret[i][1]

\* C7 (amended): under until_midnight and after_midnight every segment
\* returned by generate_segments has end > start; under full the segments
\* are the intervals unchanged, a zero-length interval included.
C7_Amended ==
    Returned("generate_segments") =>
        /\ arg.rule \in {"until_midnight", "after_midnight"}
              => \A i \in 1..Len(ret) : ret[i][2] > ret[i][1]
        /\ arg.rule = "full" => ret = arg.intervals

\* an interval that starts at 24:00 was dropped by until_midnight
C7_Witness ==
    /\ Returned("generate_segments")
    /\ arg.rule = "until_midnight"
    /\ arg.intervals = << <<DAY_MINUTES, DAY_MINUTES + 60>> >>
    /\ ret = <<>>

TotalMinutes(intervals, rule) ==
    compute_overtime_detail(generate_segments(intervals, rule).segments).total_minutes

\* C8: for the intervals of a cell that parses, the worked minutes under
\* full are the sum of the worked minutes under until_midnight and under
\* after_midnight.
C8_SplitAtMidnight ==
    (Returned("generate_segments") /\ arg.rule = "full")
        => compute_overtime_detail(ret).total_minutes
             = TotalMinutes(arg.intervals, "until_midnight")
               + TotalMinutes(arg.intervals, "after_midnight")

\* a shift across midnight with breaks deducted on both sides of it
C8_Witness ==
    /\ Returned("generate_segments") /\ arg.rule = "full"
    /\ arg.intervals = << <<22 * 60, DAY_MINUTES + 12 * 60>> >>
    /\ TotalMinutes(arg.intervals, "until_midnight") = 90
    /\ TotalMinutes(arg.intervals, "after_midnight") = 12 * 60 - 30

BareLabels == {REST_BREAKS[b][3] : b \in 1..Len(REST_BREAKS)}

\* C9: every parsed interval has 0 <= start <= 1440, end <= 2879 and
\* end - start <= 1440; in the pipeline the segments are at most one day
\* long and lie in day 0 or day 1, and every label is a bare label or a
\* next-day label.
C9_OneDay ==
    /\ Returned("parse_shift_cell") =>
          \A i \in 1..Len(ret.intervals) :
              /\ 0 <= ret.intervals[i][1] /\ ret.intervals[i][1] <= 1440
              /\ ret.intervals[i][2] <= 2879
              /\ ret.intervals[i][2] - ret.intervals[i][1] <= 1440
    /\ Returned("generate_segments") =>
          \A i \in 1..Len(ret) :
              /\ ret[i][2] - ret[i][1] <= 1440
              /\ ret[i][1] \div 1440 \in {0, 1}
              /\ ret[i][2] > ret[i][1] => (ret[i][2] - 1) \div 1440 \in {0, 1}
    /\ Returned("calculate_overtime") =>
          \A i \in 1..Len(ret.rest_labels) :
              ret.rest_labels[i] \in BareLabels \cup {"ciri" \o l : l \in BareLabels}

\* a wrapped shift that hits a break of the next day
C9_Witness ==
    /\ Returned("calculate_overtime")
    /\ arg.value = StrValue(ShiftText(22, 0, 12, 0))
    /\ arg.rule = "full"
    /\ ret.rest_labels = <<"23:00-23:30", "ciri11:30-12:00">>

\* hundredths of an hour of m minutes, a half rounded up
HalfUp(m) == (m * 100 * 2 + 60) \div (2 * 60)

\* C10: the hundredths of an hour of m minutes never end in exactly one
\* half, so the rounded hours are the same under round-half-up and
\* round-half-to-even; 90 minutes give 1.50 and 37 minutes give 0.62.
C10_Rounding ==
    Returned("round") =>
        /\ 2 * ((arg.minutes * 100) % 60) # 60
        /\ ret = HalfUp(arg.minutes)
        /\ arg.minutes = 90 => ret = 150
        /\ arg.minutes = 37 => ret = 62

C10_Witness ==
    Returned("round") /\ arg.minutes = 37 /\ ret = 62

====
